---- MODULE Spec2Model ----
(***************************************************************************)
(* Message endpoints of pipeflow (src/endpoints.py).                       *)
(*                                                                         *)
(* Two endpoint families are modelled:                                     *)
(*   - QueueInputEndpoint / QueueOutputEndpoint over one asyncio.Queue,    *)
(*     run by cooperatively scheduled tasks;                               *)
(*   - RedisInputEndpoint / RedisOutputEndpoint over one broker list,      *)
(*     each call run by a blocking thread inside its retry loop.           *)
(*                                                                         *)
(* A deployment constructs one family (Init chooses which).  The broker    *)
(* list is a sequence whose first element is the head (left end).  An      *)
(* element of a queue carries, besides the payload, the number of the put  *)
(* call and of the push attempt that inserted it: history fields that the  *)
(* program never reads, kept so that properties can tell which put fed     *)
(* which get.                                                              *)
(***************************************************************************)
EXTENDS Integers, Sequences, FiniteSets, TLC

\* ---- bounds of the model
MaxPuts == 2        \* put calls made on the RedisOutputEndpoint
MaxFaults == 2      \* connection/timeout faults the backend raises in a run
MaxIdle == 1        \* idle timeouts answered to one get call
MaxMemPuts == 3     \* put calls made on the QueueOutputEndpoint
MaxCancels == 1     \* suspended get calls whose task is cancelled

\* ---- values
Payloads == {"A", "B"}
Getters == {1, 2}
QueueSizes == {0, 1}          \* asyncio.Queue maxsize; 0 is unbounded
Directions == {"left", "right"}
FaultClasses == {"ConnectionError", "TimeoutError"}
\* Python's None where an object is expected, and "no exception pending"
None == [none |-> TRUE]
\* a str object (told apart from None)
Str(s) == [str |-> s]
QueueName == Str("tasks")
\* an asyncio.Queue handle, and an object that is not an asyncio.Queue
Queue(m) == [maxsize |-> m]
NotAQueue == [object |-> "list"]
\* arguments the constructors are called with
QueueNameArgs == {None, QueueName}
Omitted == "omitted"
DirectionArgs == {Omitted, "left", "right", "up"}
QueueArgs == {None, NotAQueue} \cup {Queue(m) : m \in QueueSizes}
NoExc == "none"
\* the local msg of put before the call binds it (a payload is a string)
NoMsg == "none"
\* a value a call returned
Ret(v) == [value |-> v]

\* self._get(self._queue_name, 20)
TimeOut == 20

\* tasks.Task(msg) and Task.get_data(): the payload carrier
Task(msg) == [data |-> msg]
get_data(task) == task.data

VARIABLES
    \* the constructed endpoints (None when that family is not constructed)
    rin, rout, qin, qout,
    ctorExc,        \* the exception the latest constructor call raised, or None
    clients,        \* endpoints whose RedisMQClient.__init__ has run
    \* broker side
    rlist,          \* the broker list under QueueName, head first
    faultsLeft,     \* connection/timeout faults the backend may still raise
    \* RedisOutputEndpoint.put, the producer thread
    pcPut, putMsg, putExc, putResult, putConn, lastPush,
    putPushes, putAcks, putFaults, putResets, putLogs,
    putCount, putPayload, putReturned,
    \* RedisInputEndpoint.get, the consumer thread
    pcGet, getExc, getResult, getConn, lastPop,
    getPops, getFaults, getIdles, getResets, getLogs,
    lastPopped, got,
    \* memory side
    mq, maxsize,
    pcMPut, mputMsg, mputResult, mputCount, mputPayload, mputDone,
    pcMGet, mgetResult, mgetSuspended, mgot,
    mcancelled      \* the cancelled gets: who, and how many puts were done by then

epVars == <<rin, rout, qin, qout, ctorExc, clients>>
brokerVars == <<rlist, faultsLeft>>
putVars == <<pcPut, putMsg, putExc, putResult, putConn, lastPush,
             putPushes, putAcks, putFaults, putResets, putLogs,
             putCount, putPayload, putReturned>>
getVars == <<pcGet, getExc, getResult, getConn, lastPop,
             getPops, getFaults, getIdles, getResets, getLogs,
             lastPopped, got>>
memVars == <<mq, maxsize, pcMPut, mputMsg, mputResult, mputCount, mputPayload,
             mputDone, pcMGet, mgetResult, mgetSuspended, mgot,
                   mcancelled>>
vars == <<epVars, brokerVars, putVars, getVars, memVars>>

\* ---- constructors
\* RedisInputEndpoint.__init__(queue_name)
RedisInputEndpoint(queue_name) == [queue_name |-> queue_name]

\* RedisOutputEndpoint.__init__(queue_name, direction)
RedisOutputEndpoint(queue_name, direction) ==
    [queue_name |-> queue_name, direction |-> direction]

\* QueueInputEndpoint.__init__(queue) / QueueOutputEndpoint.__init__(queue)
QueueInputEndpoint(queue) == [queue |-> queue]
QueueOutputEndpoint(queue) == [queue |-> queue]

\* ---- broker list primitives
Front(s) == SubSeq(s, 1, Len(s) - 1)
Last(s) == s[Len(s)]

\* faulty variant: the element is inserted at the tail
lpushTail(list, e) == list \o <<e>>
\* self._client.lpush(queue_name, msg): insert at the head
lpush(list, e) == <<e>> \o list
\* self._client.rpush(queue_name, msg): insert at the tail
rpush(list, e) == Append(list, e)
\* BRPOP on a list that holds nothing for the whole time_out answers nil; on a
\* non-empty list it removes the tail and answers it.  Faulty variants first:
\* a pop from the head, and a pop that leaves the element in the list.
blpop(list) == [elem |-> Head(list), rest |-> Tail(list)]
brpeek(list) == [elem |-> Last(list), rest |-> list]
\* self._client.brpop(queue_name, time_out)
brpop(list) == [elem |-> Last(list), rest |-> Front(list)]
\* brpop's reply: the pair (list key, payload)
brpopReply(queue_name, e) == <<queue_name.str, e.data>>
\* faulty variant: the first component of the reply (the list key) is taken
raw_data_key(data) == data[1]
\* _, raw_data = data
raw_data(data) == data[2]

\* faulty variant: the direction is ignored ("Use lpush")
PushOpNameLeft(direction) == "lpush"
\* if self._direction == "left": ... lpush ... else: ... rpush: the operation
\* the branch selects
PushOpName(direction) == IF direction = "left" THEN "lpush" ELSE "rpush"

\* the effect of the selected operation on the list
PushOp(direction, list, e) ==
    IF PushOpName(direction) = "lpush" THEN lpush(list, e) ELSE rpush(list, e)

\* ---- the connection layer (RedisMQClient and its connection pool)
\* self._client.connection_pool.disconnect(): the pool holds no open connection
\* afterwards, whether or not it held one
disconnect(conn) == "none"
\* a command sent through self._client takes a connection from the pool, which
\* opens one when none is open
get_connection(conn) == "live"

\* ---- initial state: one endpoint family constructed, nothing called yet
InitBrokerEndpoints ==
    /\ rin = RedisInputEndpoint(QueueName)
    /\ \E d \in Directions : rout = RedisOutputEndpoint(QueueName, d)
    /\ qin = None /\ qout = None
    /\ clients = {"rin", "rout"}
    /\ maxsize = 0

InitMemoryEndpoints ==
    /\ rin = None /\ rout = None
    /\ \E m \in QueueSizes :
          /\ qin = QueueInputEndpoint(Queue(m))
          /\ qout = QueueOutputEndpoint(Queue(m))
          /\ maxsize = m
    /\ clients = {}

\* nothing constructed yet
InitNoEndpoints ==
    /\ rin = None /\ rout = None /\ qin = None /\ qout = None
    /\ clients = {}
    /\ maxsize = 0

\* no call made yet, empty list and queue
InitCalls ==
    /\ ctorExc = None
    /\ rlist = <<>>
    /\ faultsLeft = MaxFaults
    /\ pcPut = "idle" /\ putMsg = NoMsg /\ putExc = NoExc /\ putResult = None
    /\ putConn = "none" /\ lastPush = None
    /\ putPushes = 0 /\ putAcks = 0 /\ putFaults = 0 /\ putResets = 0 /\ putLogs = 0
    /\ putCount = 0 /\ putPayload = <<>> /\ putReturned = {}
    /\ pcGet = "idle" /\ getExc = NoExc /\ getResult = None
    /\ getConn = "none" /\ lastPop = None
    /\ getPops = 0 /\ getFaults = 0 /\ getIdles = 0 /\ getResets = 0 /\ getLogs = 0
    /\ lastPopped = None /\ got = <<>>
    /\ mq = <<>>
    /\ pcMPut = "idle" /\ mputMsg = NoMsg /\ mputResult = None
    /\ mputCount = 0 /\ mputPayload = <<>> /\ mputDone = <<>>
    /\ pcMGet = [g \in Getters |-> "idle"]
    /\ mgetResult = [g \in Getters |-> None]
    /\ mgetSuspended = [g \in Getters |-> FALSE]
    /\ mgot = <<>>
    /\ mcancelled = <<>>

Init ==
    /\ InitBrokerEndpoints \/ InitMemoryEndpoints
    /\ InitCalls

\* ---- the constructors as calls: argument checks, then the endpoint exists

\* raise cls(msg) out of the constructor of class
Raise(class, exc, msg) == [cls |-> class, exc |-> exc, msg |-> msg]

\* RedisMQClient.__init__(**conf): the connection layer of endpoint name is set
\* up (no connection is opened yet)
RedisMQClientInit(set, name) == set \cup {name}

\* def __init__(self, queue_name, direction="left", **conf)
DirectionParam(arg) == IF arg = Omitted THEN "left" ELSE arg

\* isinstance(queue, asyncio.Queue)
isQueue(queue) == "maxsize" \in DOMAIN queue

\* faulty variant: the connection layer is set up before the argument is checked
NewRedisInputLateCheck(queue_name) ==
    /\ rin = None /\ qin = None /\ qout = None
    /\ clients' = RedisMQClientInit(clients, "rin")
    /\ IF queue_name = None
         THEN /\ ctorExc' = Raise("RedisInputEndpoint", "ValueError",
                                  "queue_name must be not None")
              /\ UNCHANGED rin
         ELSE /\ rin' = RedisInputEndpoint(queue_name)
              /\ ctorExc' = None
    /\ UNCHANGED <<rout, qin, qout>>
    /\ UNCHANGED <<brokerVars, putVars, getVars, memVars>>

\* RedisInputEndpoint(queue_name, **conf)
NewRedisInput(queue_name) ==
    /\ rin = None /\ qin = None /\ qout = None
    /\ IF queue_name = None
         THEN /\ ctorExc' = Raise("RedisInputEndpoint", "ValueError",
                                  "queue_name must be not None")
              /\ UNCHANGED <<rin, clients>>
         ELSE /\ rin' = RedisInputEndpoint(queue_name)
              /\ clients' = RedisMQClientInit(clients, "rin")
              /\ ctorExc' = None
    /\ UNCHANGED <<rout, qin, qout>>
    /\ UNCHANGED <<brokerVars, putVars, getVars, memVars>>

\* faulty variant: any direction is accepted
NewRedisOutputNoDirCheck(queue_name, direction_arg) ==
    /\ rout = None /\ qin = None /\ qout = None
    /\ IF queue_name = None
         THEN /\ ctorExc' = Raise("RedisOutputEndpoint", "ValueError",
                                  "queue_name must be not None")
              /\ UNCHANGED <<rout, clients>>
         ELSE /\ rout' = RedisOutputEndpoint(queue_name, DirectionParam(direction_arg))
              /\ clients' = RedisMQClientInit(clients, "rout")
              /\ ctorExc' = None
    /\ UNCHANGED <<rin, qin, qout>>
    /\ UNCHANGED <<brokerVars, putVars, getVars, memVars>>

\* RedisOutputEndpoint(queue_name, direction, **conf)
NewRedisOutput(queue_name, direction_arg) ==
    /\ rout = None /\ qin = None /\ qout = None
    /\ IF queue_name = None
         THEN /\ ctorExc' = Raise("RedisOutputEndpoint", "ValueError",
                                  "queue_name must be not None")
              /\ UNCHANGED <<rout, clients>>
         ELSE IF DirectionParam(direction_arg) \notin {"left", "right"}
         THEN /\ ctorExc' = Raise("RedisOutputEndpoint", "ValueError",
                                  "invalid direction")
              /\ UNCHANGED <<rout, clients>>
         ELSE /\ rout' = RedisOutputEndpoint(queue_name, DirectionParam(direction_arg))
              /\ clients' = RedisMQClientInit(clients, "rout")
              /\ ctorExc' = None
    /\ UNCHANGED <<rin, qin, qout>>
    /\ UNCHANGED <<brokerVars, putVars, getVars, memVars>>

\* QueueInputEndpoint(queue); a pipeline's two endpoints share one queue
NewQueueInput(queue) ==
    /\ qin = None /\ rin = None /\ rout = None
    /\ IF queue = None
         THEN /\ ctorExc' = Raise("QueueInputEndpoint", "ValueError",
                                  "queue must be not None")
              /\ UNCHANGED <<qin, maxsize>>
         ELSE IF ~isQueue(queue)
         THEN /\ ctorExc' = Raise("QueueInputEndpoint", "AssertionError",
                                  "queue must be an isinstance of asyncio.Queue")
              /\ UNCHANGED <<qin, maxsize>>
         ELSE /\ IF qout = None THEN TRUE ELSE qout.queue = queue
              /\ qin' = QueueInputEndpoint(queue)
              /\ maxsize' = queue.maxsize
              /\ ctorExc' = None
    /\ UNCHANGED <<rin, rout, qout, clients>>
    /\ UNCHANGED <<mq, pcMPut, mputMsg, mputResult, mputCount, mputPayload,
                   mputDone, pcMGet, mgetResult, mgetSuspended, mgot,
                   mcancelled>>
    /\ UNCHANGED <<brokerVars, putVars, getVars>>

\* QueueOutputEndpoint(queue)
NewQueueOutput(queue) ==
    /\ qout = None /\ rin = None /\ rout = None
    /\ IF queue = None
         THEN /\ ctorExc' = Raise("QueueOutputEndpoint", "ValueError",
                                  "queue must be not None")
              /\ UNCHANGED <<qout, maxsize>>
         ELSE IF ~isQueue(queue)
         THEN /\ ctorExc' = Raise("QueueOutputEndpoint", "AssertionError",
                                  "queue must be an isinstance of asyncio.Queue")
              /\ UNCHANGED <<qout, maxsize>>
         ELSE /\ IF qin = None THEN TRUE ELSE qin.queue = queue
              /\ qout' = QueueOutputEndpoint(queue)
              /\ maxsize' = queue.maxsize
              /\ ctorExc' = None
    /\ UNCHANGED <<rin, rout, qin, clients>>
    /\ UNCHANGED <<mq, pcMPut, mputMsg, mputResult, mputCount, mputPayload,
                   mputDone, pcMGet, mgetResult, mgetSuspended, mgot,
                   mcancelled>>
    /\ UNCHANGED <<brokerVars, putVars, getVars>>

\* ---- RedisOutputEndpoint.put / _put

\* the element the current push attempt inserts
PushElem == [id |-> putCount, try |-> putPushes + 1, data |-> putMsg]

\* the backend call one attempt of _put issues
PushCall ==
    [op |-> PushOpName(rout.direction), key |-> rout.queue_name]

\* put(task): msg = task.get_data(); self._put(self._queue_name, msg)
PutCall(p) ==
    /\ rout # None
    /\ pcPut \in {"idle", "done", "raised"}
    /\ putCount < MaxPuts
    /\ putCount' = putCount + 1
    /\ putPayload' = Append(putPayload, p)
    /\ putMsg' = get_data(Task(p))
    /\ pcPut' = "attempt"
    /\ putExc' = NoExc /\ putResult' = None
    /\ putPushes' = 0 /\ putAcks' = 0 /\ putFaults' = 0
    /\ putResets' = 0 /\ putLogs' = 0
    /\ UNCHANGED <<putConn, lastPush, putReturned>>
    /\ UNCHANGED <<epVars, brokerVars, getVars, memVars>>

\* the push is acknowledged: the else branch returns True, put returns True
PushAck ==
    /\ pcPut = "attempt"
    /\ rlist' = PushOp(rout.direction, rlist, PushElem)
    /\ lastPush' = PushCall
    /\ putPushes' = putPushes + 1
    /\ putAcks' = putAcks + 1
    /\ putConn' = get_connection(putConn)
    /\ putResult' = Ret(TRUE)
    /\ putReturned' = putReturned \cup {putCount}
    /\ pcPut' = "done"
    /\ UNCHANGED <<putMsg, putExc, putFaults, putResets, putLogs, putCount, putPayload>>
    /\ UNCHANGED <<epVars, faultsLeft, getVars, memVars>>

\* the push raises redis.ConnectionError or redis.TimeoutError, either before
\* the broker applied it or after (the reply is lost)
PushFault(cls, applied) ==
    /\ pcPut = "attempt"
    /\ faultsLeft > 0
    /\ faultsLeft' = faultsLeft - 1
    /\ rlist' = IF applied THEN PushOp(rout.direction, rlist, PushElem) ELSE rlist
    /\ lastPush' = PushCall
    /\ putPushes' = putPushes + 1
    /\ putFaults' = putFaults + 1
    /\ putExc' = cls
    /\ pcPut' = "except"
    /\ UNCHANGED <<putMsg, putResult, putConn, putAcks, putResets, putLogs,
                   putCount, putPayload, putReturned>>
    /\ UNCHANGED <<epVars, getVars, memVars>>

\* the push raises an exception of a class no except clause names: it leaves put
PushOther ==
    /\ pcPut = "attempt"
    /\ lastPush' = PushCall
    /\ putPushes' = putPushes + 1
    /\ putExc' = "Other"
    /\ pcPut' = "raised"
    /\ UNCHANGED <<putMsg, putResult, putConn, putAcks, putFaults, putResets, putLogs,
                   putCount, putPayload, putReturned>>
    /\ UNCHANGED <<epVars, brokerVars, getVars, memVars>>

\* faulty variant of the handler: the fault is raised again (the
\* "raise error.MQClient...Error()" that the source has commented out)
PutExceptReraise ==
    /\ pcPut = "except"
    /\ putExc \in FaultClasses
    /\ putLogs' = putLogs + 1
    /\ putResets' = putResets + 1
    /\ putConn' = disconnect(putConn)
    /\ pcPut' = "raised"
    /\ UNCHANGED <<putMsg, putExc, putResult, lastPush, putPushes, putAcks, putFaults,
                   putCount, putPayload, putReturned>>
    /\ UNCHANGED <<epVars, brokerVars, getVars, memVars>>

\* except redis.ConnectionError / redis.TimeoutError:
\*     logger.error(...); self._client.connection_pool.disconnect(); continue
PutExcept ==
    /\ pcPut = "except"
    /\ putExc \in FaultClasses
    /\ putLogs' = putLogs + 1
    /\ putResets' = putResets + 1
    /\ putConn' = disconnect(putConn)
    /\ putExc' = NoExc
    /\ pcPut' = "attempt"
    /\ UNCHANGED <<putMsg, putResult, lastPush, putPushes, putAcks, putFaults,
                   putCount, putPayload, putReturned>>
    /\ UNCHANGED <<epVars, brokerVars, getVars, memVars>>

\* ---- RedisInputEndpoint.get / _get

\* faulty variant: the pop goes to a fixed list, not to the endpoint's own
PopCallOtherKey == [op |-> "brpop", key |-> Str("default"), time_out |-> TimeOut]
\* the backend call one attempt of _get issues
PopCall == [op |-> "brpop", key |-> rin.queue_name, time_out |-> TimeOut]

\* get(): msg = self._get(self._queue_name, 20)
GetCall ==
    /\ rin # None
    /\ pcGet \in {"idle", "done", "raised"}
    /\ pcGet' = "attempt"
    /\ getExc' = NoExc /\ getResult' = None
    /\ getPops' = 0 /\ getFaults' = 0 /\ getIdles' = 0
    /\ getResets' = 0 /\ getLogs' = 0
    /\ UNCHANGED <<getConn, lastPop, lastPopped, got>>
    /\ UNCHANGED <<epVars, brokerVars, putVars, memVars>>

\* faulty variant: the data is recorded but the loop goes on popping
PopDataContinue ==
    /\ pcGet = "attempt"
    /\ rlist # <<>>
    /\ LET e == brpop(rlist).elem
           msg == raw_data(brpopReply(rin.queue_name, e))
       IN  /\ rlist' = brpop(rlist).rest
           /\ lastPopped' = e
           /\ getResult' = Task(msg)
           /\ got' = Append(got, [id |-> e.id, try |-> e.try, data |-> get_data(Task(msg))])
    /\ lastPop' = PopCall
    /\ getPops' = getPops + 1
    /\ getConn' = get_connection(getConn)
    /\ pcGet' = IF rlist' = <<>> THEN "done" ELSE "attempt"
    /\ UNCHANGED <<getExc, getFaults, getIdles, getResets, getLogs>>
    /\ UNCHANGED <<epVars, faultsLeft, putVars, memVars>>

\* brpop returns (key, payload): the else branch returns raw_data and get
\* returns Task(msg)
PopData ==
    /\ pcGet = "attempt"
    /\ rlist # <<>>
    /\ LET e == brpop(rlist).elem
           msg == raw_data(brpopReply(rin.queue_name, e))
       IN  /\ rlist' = brpop(rlist).rest
           /\ lastPopped' = e
           /\ getResult' = Task(msg)
           /\ got' = Append(got, [id |-> e.id, try |-> e.try, data |-> get_data(Task(msg))])
    /\ lastPop' = PopCall
    /\ getPops' = getPops + 1
    /\ getConn' = get_connection(getConn)
    /\ pcGet' = "done"
    /\ UNCHANGED <<getExc, getFaults, getIdles, getResets, getLogs>>
    /\ UNCHANGED <<epVars, faultsLeft, putVars, memVars>>

\* faulty variant: the empty answer is handled like a fault (logged, pool reset)
PopIdleReset ==
    /\ pcGet = "attempt"
    /\ rlist = <<>>
    /\ getIdles < MaxIdle
    /\ lastPop' = PopCall
    /\ getPops' = getPops + 1
    /\ getIdles' = getIdles + 1
    /\ getLogs' = getLogs + 1
    /\ getResets' = getResets + 1
    /\ getConn' = disconnect(getConn)
    /\ pcGet' = "attempt"
    /\ UNCHANGED <<getExc, getResult, getFaults, lastPopped, got>>
    /\ UNCHANGED <<epVars, brokerVars, putVars, memVars>>

\* brpop returns None after time_out with the list empty: continue
PopIdle ==
    /\ pcGet = "attempt"
    /\ rlist = <<>>
    /\ getIdles < MaxIdle
    /\ lastPop' = PopCall
    /\ getPops' = getPops + 1
    /\ getIdles' = getIdles + 1
    /\ getConn' = get_connection(getConn)
    /\ pcGet' = "attempt"
    /\ UNCHANGED <<getExc, getResult, getFaults, getResets, getLogs, lastPopped, got>>
    /\ UNCHANGED <<epVars, brokerVars, putVars, memVars>>

\* brpop raises redis.ConnectionError or redis.TimeoutError, either before the
\* broker applied it or after it removed the tail (the reply is lost)
PopFault(cls, applied) ==
    /\ pcGet = "attempt"
    /\ faultsLeft > 0
    /\ applied => rlist # <<>>
    /\ faultsLeft' = faultsLeft - 1
    /\ rlist' = IF applied THEN brpop(rlist).rest ELSE rlist
    /\ lastPop' = PopCall
    /\ getPops' = getPops + 1
    /\ getFaults' = getFaults + 1
    /\ getExc' = cls
    /\ pcGet' = "except"
    /\ UNCHANGED <<getResult, getConn, getIdles, getResets, getLogs, lastPopped, got>>
    /\ UNCHANGED <<epVars, putVars, memVars>>

\* brpop raises an exception of a class no except clause names: it leaves get
PopOther ==
    /\ pcGet = "attempt"
    /\ lastPop' = PopCall
    /\ getPops' = getPops + 1
    /\ getExc' = "Other"
    /\ pcGet' = "raised"
    /\ UNCHANGED <<getResult, getConn, getFaults, getIdles, getResets, getLogs,
                   lastPopped, got>>
    /\ UNCHANGED <<epVars, brokerVars, putVars, memVars>>

\* faulty variant of the handler: after the reset it does not go back to the
\* pop; the call stays inside the handler
GetExceptStuck ==
    /\ pcGet = "except"
    /\ getExc \in FaultClasses
    /\ getLogs' = getLogs + 1
    /\ getResets' = getResets + 1
    /\ getConn' = disconnect(getConn)
    /\ getExc' = NoExc
    /\ pcGet' = "except"
    /\ UNCHANGED <<getResult, lastPop, getPops, getFaults, getIdles, lastPopped, got>>
    /\ UNCHANGED <<epVars, brokerVars, putVars, memVars>>

\* faulty variant of the handler: the fault is logged but the pool is kept
GetExceptNoReset ==
    /\ pcGet = "except"
    /\ getExc \in FaultClasses
    /\ getLogs' = getLogs + 1
    /\ getExc' = NoExc
    /\ pcGet' = "attempt"
    /\ UNCHANGED <<getResult, getConn, getResets, lastPop, getPops, getFaults, getIdles,
                   lastPopped, got>>
    /\ UNCHANGED <<epVars, brokerVars, putVars, memVars>>

\* faulty variant of the handler: the fault is raised again (the
\* "raise error.MQClient...Error()" that the source has commented out)
GetExceptReraise ==
    /\ pcGet = "except"
    /\ getExc \in FaultClasses
    /\ getLogs' = getLogs + 1
    /\ getResets' = getResets + 1
    /\ getConn' = disconnect(getConn)
    /\ pcGet' = "raised"
    /\ UNCHANGED <<getExc, getResult, lastPop, getPops, getFaults, getIdles, lastPopped, got>>
    /\ UNCHANGED <<epVars, brokerVars, putVars, memVars>>

\* faulty variant of the handler: it reconnects by itself after the reset
GetExceptReconnect ==
    /\ pcGet = "except"
    /\ getExc \in FaultClasses
    /\ getLogs' = getLogs + 1
    /\ getResets' = getResets + 1
    /\ getConn' = get_connection(disconnect(getConn))
    /\ getExc' = NoExc
    /\ pcGet' = "attempt"
    /\ UNCHANGED <<getResult, lastPop, getPops, getFaults, getIdles, lastPopped, got>>
    /\ UNCHANGED <<epVars, brokerVars, putVars, memVars>>

\* except redis.ConnectionError / redis.TimeoutError:
\*     logger.error(...); self._client.connection_pool.disconnect(); continue
GetExcept ==
    /\ pcGet = "except"
    /\ getExc \in FaultClasses
    /\ getLogs' = getLogs + 1
    /\ getResets' = getResets + 1
    /\ getConn' = disconnect(getConn)
    /\ getExc' = NoExc
    /\ pcGet' = "attempt"
    /\ UNCHANGED <<getResult, lastPop, getPops, getFaults, getIdles, lastPopped, got>>
    /\ UNCHANGED <<epVars, brokerVars, putVars, memVars>>

\* ---- asyncio.Queue shared by the memory endpoints

\* faulty variant: maxsize 0 is taken as a capacity of zero items
fullNoUnbounded == Len(mq) >= maxsize
\* Queue.full(): maxsize <= 0 never fills
full == maxsize > 0 /\ Len(mq) >= maxsize
\* Queue.empty()
empty == mq = <<>>
\* Queue.put_nowait(item) appends on the right, Queue.get_nowait() pops the left
put_nowait(q, item) == Append(q, item)
\* faulty variant: the item is handed out but stays in the queue
get_nowait_peek(q) == [item |-> Head(q), rest |-> q]
\* faulty variant: the item is taken from the right end
get_nowait_right(q) == [item |-> Last(q), rest |-> Front(q)]
get_nowait(q) == [item |-> Head(q), rest |-> Tail(q)]

\* ---- QueueOutputEndpoint.put

\* the element a put enqueues
MPutElem == [id |-> mputCount, data |-> mputMsg]

\* msg = task.get_data(); await self._queue.put(msg): the queue is full, so the
\* task is suspended
MPutCallBlocked(p) ==
    /\ qout # None
    /\ pcMPut \in {"idle", "done"}
    /\ mputCount < MaxMemPuts
    /\ full
    /\ mputCount' = mputCount + 1
    /\ mputPayload' = Append(mputPayload, p)
    /\ mputMsg' = get_data(Task(p))
    /\ mputResult' = None
    /\ pcMPut' = "blocked"
    /\ UNCHANGED <<mq, maxsize, mputDone, pcMGet, mgetResult, mgetSuspended, mgot,
                   mcancelled>>
    /\ UNCHANGED <<epVars, brokerVars, putVars, getVars>>

\* msg = task.get_data(); await self._queue.put(msg); return True: the queue has
\* room, so the call runs through without suspending
MPutCall(p) ==
    /\ qout # None
    /\ pcMPut \in {"idle", "done"}
    /\ mputCount < MaxMemPuts
    /\ ~full
    /\ mputCount' = mputCount + 1
    /\ mputPayload' = Append(mputPayload, p)
    /\ mputMsg' = get_data(Task(p))
    /\ mq' = put_nowait(mq, [id |-> mputCount + 1, data |-> get_data(Task(p))])
    /\ mputDone' = Append(mputDone, mputCount + 1)
    /\ mputResult' = Ret(TRUE)
    /\ pcMPut' = "done"
    /\ UNCHANGED <<maxsize, pcMGet, mgetResult, mgetSuspended, mgot,
                   mcancelled>>
    /\ UNCHANGED <<epVars, brokerVars, putVars, getVars>>

\* a suspended put resumes once the queue has room: enqueue, return True
MPutResume ==
    /\ pcMPut = "blocked"
    /\ ~full
    /\ mq' = put_nowait(mq, MPutElem)
    /\ mputDone' = Append(mputDone, mputCount)
    /\ mputResult' = Ret(TRUE)
    /\ pcMPut' = "done"
    /\ UNCHANGED <<maxsize, mputMsg, mputCount, mputPayload, pcMGet, mgetResult,
                   mgetSuspended, mgot,
                   mcancelled>>
    /\ UNCHANGED <<epVars, brokerVars, putVars, getVars>>

\* ---- QueueInputEndpoint.get

\* msg = await self._queue.get(); task = tasks.Task(msg); return task
MGetReturn(g) ==
    LET item == get_nowait(mq).item
        task == Task(item.data)
    IN  /\ mq' = get_nowait(mq).rest
        /\ mgetResult' = [mgetResult EXCEPT ![g] = task]
        /\ mgot' = Append(mgot, [getter |-> g, id |-> item.id, data |-> get_data(task)])
        /\ pcMGet' = [pcMGet EXCEPT ![g] = "done"]
        /\ UNCHANGED mcancelled

\* get() called with an item available: it returns without suspending
MGetCall(g) ==
    /\ qin # None
    /\ pcMGet[g] \in {"idle", "done", "cancelled"}
    /\ ~empty
    /\ MGetReturn(g)
    /\ mgetSuspended' = [mgetSuspended EXCEPT ![g] = FALSE]
    /\ UNCHANGED <<maxsize, pcMPut, mputMsg, mputResult, mputCount, mputPayload, mputDone>>
    /\ UNCHANGED <<epVars, brokerVars, putVars, getVars>>

\* get() called on an empty queue: the task is suspended in Queue.get()
MGetCallSuspend(g) ==
    /\ qin # None
    /\ pcMGet[g] \in {"idle", "done", "cancelled"}
    /\ empty
    /\ pcMGet' = [pcMGet EXCEPT ![g] = "suspended"]
    /\ mgetResult' = [mgetResult EXCEPT ![g] = None]
    /\ mgetSuspended' = [mgetSuspended EXCEPT ![g] = TRUE]
    /\ UNCHANGED <<mq, maxsize, pcMPut, mputMsg, mputResult, mputCount, mputPayload,
                   mputDone, mgot,
                   mcancelled>>
    /\ UNCHANGED <<epVars, brokerVars, putVars, getVars>>

\* faulty variant: the CancelledError is swallowed and get returns normally
MGetCancelSwallowed(g) ==
    /\ pcMGet[g] = "suspended"
    /\ Len(mcancelled) < MaxCancels
    /\ pcMGet' = [pcMGet EXCEPT ![g] = "done"]
    /\ mcancelled' = Append(mcancelled, [getter |-> g, puts |-> Len(mputDone)])
    /\ UNCHANGED <<mq, maxsize, pcMPut, mputMsg, mputResult, mputCount, mputPayload,
                   mputDone, mgetResult, mgetSuspended, mgot>>
    /\ UNCHANGED <<epVars, brokerVars, putVars, getVars>>

\* the task awaiting self._queue.get() is cancelled: Queue.get() removes its
\* waiter and CancelledError leaves get(), which has no try around the await;
\* no item is taken and no Task is built
MGetCancel(g) ==
    /\ pcMGet[g] = "suspended"
    /\ Len(mcancelled) < MaxCancels
    /\ pcMGet' = [pcMGet EXCEPT ![g] = "cancelled"]
    /\ mcancelled' = Append(mcancelled, [getter |-> g, puts |-> Len(mputDone)])
    /\ UNCHANGED <<mq, maxsize, pcMPut, mputMsg, mputResult, mputCount, mputPayload,
                   mputDone, mgetResult, mgetSuspended, mgot>>
    /\ UNCHANGED <<epVars, brokerVars, putVars, getVars>>

\* a suspended get resumes once an item is in the queue
MGetResume(g) ==
    /\ pcMGet[g] = "suspended"
    /\ ~empty
    /\ MGetReturn(g)
    /\ UNCHANGED <<maxsize, pcMPut, mputMsg, mputResult, mputCount, mputPayload,
                   mputDone, mgetSuspended>>
    /\ UNCHANGED <<epVars, brokerVars, putVars, getVars>>

\* ---- the system
PutThread ==
    \/ PushAck
    \/ \E cls \in FaultClasses, applied \in BOOLEAN : PushFault(cls, applied)
    \/ PushOther
    \/ PutExcept

GetThread ==
    \/ PopData
    \/ PopIdle
    \/ \E cls \in FaultClasses, applied \in BOOLEAN : PopFault(cls, applied)
    \/ PopOther
    \/ GetExcept

Next ==
    \/ \E p \in Payloads : PutCall(p)
    \/ PushAck
    \/ \E cls \in FaultClasses, applied \in BOOLEAN : PushFault(cls, applied)
    \/ PushOther
    \/ PutExcept
    \/ GetCall
    \/ PopData
    \/ PopIdle
    \/ \E cls \in FaultClasses, applied \in BOOLEAN : PopFault(cls, applied)
    \/ PopOther
    \/ GetExcept
    \/ \E p \in Payloads : MPutCall(p)
    \/ \E p \in Payloads : MPutCallBlocked(p)
    \/ MPutResume
    \/ \E g \in Getters : MGetCall(g)
    \/ \E g \in Getters : MGetCallSuspend(g)
    \/ \E g \in Getters : MGetResume(g)
    \/ \E g \in Getters : MGetCancel(g)

Spec == Init /\ [][Next]_vars

\* the endpoints are constructed while the program runs, in any order, and an
\* endpoint is used as soon as it exists
CtorInit == InitNoEndpoints /\ InitCalls

CtorNext ==
    \/ \E n \in QueueNameArgs : NewRedisInput(n)
    \/ \E n \in QueueNameArgs, d \in DirectionArgs : NewRedisOutput(n, d)
    \/ \E q \in QueueArgs : NewQueueInput(q)
    \/ \E q \in QueueArgs : NewQueueOutput(q)
    \/ Next

CtorSpec == CtorInit /\ [][CtorNext]_vars

\* a thread inside put or get keeps running: the broker endpoints block their
\* thread and take each step of the loop without waiting for anyone
LiveSpec == Spec /\ WF_vars(PutThread) /\ WF_vars(GetThread)

\* ==== properties

\* C1: a get call answered by N connection faults and then by data resets the
\* connection exactly N times (once after each fault, before the next pop),
\* pops exactly N+1 times, returns a Task wrapping the payload the last pop
\* removed, and does not raise.
GetRetryContract ==
    getIdles = 0 =>
        /\ pcGet = "attempt" => getResets = getFaults /\ getPops = getFaults
        /\ pcGet = "except" => /\ getExc \in FaultClasses
                               /\ getResets + 1 = getFaults
                               /\ getPops = getFaults
        /\ pcGet = "done" => /\ getResets = getFaults
                             /\ getPops = getFaults + 1
                             /\ getResult = Task(lastPopped.data)
                             /\ getExc = NoExc
        /\ pcGet = "raised" => getExc \notin FaultClasses

GetRetryWitness ==
    /\ pcGet = "done" /\ getIdles = 0
    /\ getFaults = MaxFaults /\ getResets = MaxFaults /\ getPops = MaxFaults + 1

\* C2: in put, a push attempt that ends in a connection or timeout fault is
\* followed by exactly one reset and then by the next push attempt, with no
\* other step of the call in between; put returns True only after an
\* acknowledged push, never returns False, and never lets a connection or
\* timeout fault out.
PutRetryContract ==
    /\ [](/\ pcPut = "attempt" => putResets = putFaults
          /\ pcPut = "except" => putExc \in FaultClasses /\ putResets + 1 = putFaults
          /\ pcPut = "done" => putResult = Ret(TRUE) /\ putAcks = 1
          /\ pcPut # "done" => putResult = None /\ putAcks = 0
          /\ pcPut = "raised" => putExc \notin FaultClasses)
    /\ [][putFaults' = putFaults + 1 => pcPut' = "except" /\ putResets' = putResets]_vars
    /\ [][pcPut = "except" =>
             \/ UNCHANGED putVars
             \/ /\ pcPut' = "attempt"
                /\ putResets' = putResets + 1
                /\ putPushes' = putPushes]_vars
    /\ [][pcPut = "attempt" => UNCHANGED putVars \/ putPushes' = putPushes + 1]_vars

PutRetryWitness ==
    /\ pcPut = "done" /\ putResult = Ret(TRUE)
    /\ putFaults = MaxFaults /\ putResets = MaxFaults /\ putPushes = MaxFaults + 1

\* C3: an idle timeout (brpop answers None) resets nothing and logs nothing:
\* resets and fault log entries both equal the number of faults whatever the
\* number of idle timeouts, and after an idle timeout get issues the next pop.
IdleTimeoutNoReset ==
    /\ [](pcGet \in {"attempt", "done"} =>
             /\ getResets = getFaults
             /\ getLogs = getFaults
             /\ getPops = getFaults + getIdles + (IF pcGet = "done" THEN 1 ELSE 0))
    /\ [][getIdles' = getIdles + 1 =>
             /\ getResets' = getResets
             /\ getLogs' = getLogs
             /\ getConn' = "live"
             /\ getExc' = NoExc
             /\ pcGet' = "attempt"]_vars
    /\ [][pcGet = "attempt" => UNCHANGED getVars \/ getPops' = getPops + 1]_vars

IdleTimeoutWitness ==
    /\ pcGet = "done" /\ getIdles >= 1 /\ getFaults >= 1
    /\ getResets = getFaults /\ getLogs = getFaults

\* ---- C4
\* C4 as claimed: a blocking broker call has no terminal failure state, so a
\* caller never observes an error.
NoTerminalFailure == pcGet # "raised" /\ pcPut # "raised"

\* C4 amended: each call moves Attempt -> Success, Attempt -> Idle-Timeout ->
\* Attempt, or Attempt -> Fault -> Reset-Connection -> Attempt, and absorbs
\* connection and timeout faults; the only other way out of the loop is an
\* exception of a class the except clauses do not name, which ends the call.
CallStateMachine ==
    /\ [][/\ pcGet = "attempt" => pcGet' \in {"attempt", "done", "except", "raised"}
          /\ pcGet = "except" => pcGet' \in {"except", "attempt"}
          /\ (pcGet = "attempt" /\ pcGet' = "attempt" /\ getPops' # getPops) =>
                 getIdles' = getIdles + 1
          /\ (pcGet = "attempt" /\ pcGet' = "except") =>
                 getExc' \in FaultClasses /\ getFaults' = getFaults + 1
          /\ (pcGet = "except" /\ pcGet' = "attempt") =>
                 getResets' = getResets + 1 /\ getConn' = "none"
          /\ (pcGet = "attempt" /\ pcGet' = "done") =>
                 getResult' = Task(lastPopped'.data) /\ getExc' = NoExc
          /\ (pcGet = "attempt" /\ pcGet' = "raised") => getExc' \notin FaultClasses
         ]_vars
    /\ [][/\ pcPut = "attempt" => pcPut' \in {"attempt", "done", "except", "raised"}
          /\ pcPut = "except" => pcPut' \in {"except", "attempt"}
          /\ (pcPut = "attempt" /\ pcPut' = "attempt") => UNCHANGED putVars
          /\ (pcPut = "attempt" /\ pcPut' = "except") =>
                 putExc' \in FaultClasses /\ putFaults' = putFaults + 1
          /\ (pcPut = "except" /\ pcPut' = "attempt") =>
                 putResets' = putResets + 1 /\ putConn' = "none"
          /\ (pcPut = "attempt" /\ pcPut' = "done") =>
                 putResult' = Ret(TRUE) /\ putExc' = NoExc
          /\ (pcPut = "attempt" /\ pcPut' = "raised") => putExc' \notin FaultClasses
         ]_vars

CallStateMachineWitness ==
    /\ pcGet = "done" /\ getFaults >= 1 /\ getIdles >= 1
    /\ pcPut = "raised" /\ putExc = "Other" /\ putFaults >= 1

\* ---- C5
getActive == pcGet \in {"attempt", "except"}
putActive == pcPut \in {"attempt", "except"}

\* C5 as claimed: once the backend raises no more connection/timeout faults
\* and an element is in the list, a get call in progress eventually returns a
\* Task, and a put call in progress eventually returns True.
EventualSuccess ==
    /\ (getActive /\ faultsLeft = 0 /\ rlist # <<>>) ~> (pcGet = "done")
    /\ (putActive /\ faultsLeft = 0) ~> (pcPut = "done")

\* C5 amended: under the same conditions the call eventually ends, with a
\* Task (get) or True (put) unless the backend operation raises an exception
\* of a class the except clauses do not name; a fault or an idle timeout
\* never ends the call, and get returns only when a pop found an element.
EventualEnd ==
    /\ (getActive /\ faultsLeft = 0 /\ rlist # <<>>) ~> (pcGet \in {"done", "raised"})
    /\ (putActive /\ faultsLeft = 0) ~> (pcPut \in {"done", "raised"})
    /\ [][/\ (getFaults' = getFaults + 1 \/ getIdles' = getIdles + 1) => getActive'
          /\ putFaults' = putFaults + 1 => putActive'
          /\ (getActive /\ pcGet' = "done") =>
                 rlist # <<>> /\ Len(rlist') = Len(rlist) - 1 /\ getResult' # None
          /\ (getActive /\ pcGet' = "raised") => getExc' = "Other"
          /\ (putActive /\ pcPut' = "raised") => putExc' = "Other"
         ]_vars

EventualEndWitness ==
    /\ pcGet = "done" /\ getFaults >= 1 /\ getIdles >= 1 /\ faultsLeft = 0
    /\ pcPut = "done" /\ putFaults >= 1

\* ---- C6
InList(id) == \E i \in DOMAIN rlist : rlist[i].id = id
InGot(id) == \E i \in DOMAIN got : got[i].id = id

\* C6: every payload whose put returned True is, at every later point, still
\* in the broker list or has been returned by a get.
NoTaskLost == \A id \in putReturned : InList(id) \/ InGot(id)

\* ---- C7
\* C7 as claimed: the Tasks returned by get correspond one-to-one to distinct
\* successful put calls: each comes from a put that returned True, and no
\* put feeds two gets.
GetPutOneToOne ==
    /\ \A i \in DOMAIN got : got[i].id \in putReturned
    /\ \A i, j \in DOMAIN got : i # j => got[i].id # got[j].id

\* C7 amended: every get returns exactly one Task, whose payload is the
\* argument of a put call already made and was inserted by one push attempt
\* of that call which the broker applied; each applied push feeds at most one
\* get.  The put need not have returned yet, and a push that was applied and
\* then faulted is repeated, so one put can feed several gets (at-least-once).
GetFromAppliedPush ==
    /\ \A i \in DOMAIN got :
          /\ got[i].id \in 1..putCount
          /\ got[i].data = putPayload[got[i].id]
          /\ got[i].try >= 1
          /\ got[i].id = putCount => got[i].try <= putPushes
    /\ \A i, j \in DOMAIN got :
          i # j => <<got[i].id, got[i].try>> # <<got[j].id, got[j].try>>
    /\ \A i \in DOMAIN got, k \in DOMAIN rlist :
          <<got[i].id, got[i].try>> # <<rlist[k].id, rlist[k].try>>
    /\ pcGet = "done" => Len(got) >= 1 /\ getResult = Task(got[Len(got)].data)

GetFromAppliedPushWitness ==
    /\ Len(got) = 2
    /\ got[1].id = got[2].id
    /\ got[1].id \notin putReturned

RoundTrip ==
    /\ \A i \in DOMAIN got : got[i].data = putPayload[got[i].id]
    /\ pcGet = "done" => get_data(getResult) = putPayload[lastPopped.id]
    /\ \A i \in DOMAIN mgot : mgot[i].data = mputPayload[mgot[i].id]
    /\ \A g \in Getters :
          pcMGet[g] = "done" =>
              \E i \in DOMAIN mgot : /\ mgot[i].getter = g
                                     /\ get_data(mgetResult[g]) = mputPayload[mgot[i].id]

RoundTripWitness ==
    /\ Len(got) = 2
    /\ got[1].data # got[2].data
    /\ putFaults >= 1 /\ getFaults >= 1
    /\ pcGet = "done"

\* ---- C10
\* C10: a get on an empty memory queue stays suspended while the queue is
\* empty (unless its task is cancelled) and, once a put has enqueued an item,
\* returns a Task wrapping the item at the head; the k-th completed get
\* returns the payload of the k-th completed put.
MemoryFifo ==
    /\ [](/\ Len(mgot) <= Len(mputDone)
          /\ \A k \in DOMAIN mgot :
                /\ mgot[k].id = mputDone[k]
                /\ mgot[k].data = mputPayload[mputDone[k]])
    /\ [][\A g \in Getters :
             /\ (pcMGet[g] = "suspended" /\ empty) =>
                    pcMGet'[g] \in {"suspended", "cancelled"}
             /\ (pcMGet[g] = "suspended" /\ pcMGet'[g] \notin {"suspended", "cancelled"}) =>
                    /\ pcMGet'[g] = "done"
                    /\ mgetResult'[g] = Task(Head(mq).data)
                    /\ mq' = Tail(mq)]_vars

MemoryFifoWitness ==
    /\ Len(mgot) = 3
    /\ mgot[1].data # mgot[2].data
    /\ \E g \in Getters : pcMGet[g] = "done" /\ mgetSuspended[g] /\ mgot[3].getter = g

NullArgMsgs == {"queue_name must be not None", "queue must be not None"}
NullArgRejected ==
    /\ []((ctorExc # None /\ ctorExc.msg \in NullArgMsgs) => ctorExc.exc = "ValueError")
    /\ [](rin = None => /\ "rin" \notin clients
                        /\ pcGet = "idle" /\ lastPop = None
                        /\ getPops = 0 /\ getResets = 0 /\ getConn = "none")
    /\ [](rout = None => /\ "rout" \notin clients
                         /\ pcPut = "idle" /\ lastPush = None
                         /\ putPushes = 0 /\ putResets = 0 /\ putConn = "none")
    /\ [](qin = None => /\ \A g \in Getters : pcMGet[g] = "idle"
                        /\ mgot = <<>>)
    /\ [](qout = None => pcMPut = "idle" /\ mputCount = 0 /\ mq = <<>>)
    /\ [](/\ rin # None => rin.queue_name # None
          /\ rout # None => rout.queue_name # None
          /\ qin # None => qin.queue # None
          /\ qout # None => qout.queue # None)
    /\ [][NewRedisInput(None) =>
            /\ ctorExc' # None /\ ctorExc'.cls = "RedisInputEndpoint"
            /\ ctorExc'.exc = "ValueError"
            /\ rin' = None /\ clients' = clients
            /\ UNCHANGED <<brokerVars, putVars, getVars, memVars>>]_vars
    /\ [][(\E d \in DirectionArgs : NewRedisOutput(None, d)) =>
            /\ ctorExc' # None /\ ctorExc'.cls = "RedisOutputEndpoint"
            /\ ctorExc'.exc = "ValueError"
            /\ rout' = None /\ clients' = clients
            /\ UNCHANGED <<brokerVars, putVars, getVars, memVars>>]_vars
    /\ [][NewQueueInput(None) =>
            /\ ctorExc' # None /\ ctorExc'.cls = "QueueInputEndpoint"
            /\ ctorExc'.exc = "ValueError"
            /\ qin' = None /\ clients' = clients
            /\ UNCHANGED <<brokerVars, putVars, getVars, memVars>>]_vars
    /\ [][NewQueueOutput(None) =>
            /\ ctorExc' # None /\ ctorExc'.cls = "QueueOutputEndpoint"
            /\ ctorExc'.exc = "ValueError"
            /\ qout' = None /\ clients' = clients
            /\ UNCHANGED <<brokerVars, putVars, getVars, memVars>>]_vars

\* the input endpoint's construction failed on a null name while the producer
\* had already completed a put: nothing of the consumer side has moved
NullArgRejectedWitness ==
    /\ ctorExc # None /\ ctorExc.cls = "RedisInputEndpoint"
    /\ ctorExc.msg = "queue_name must be not None"
    /\ rin = None /\ "rin" \notin clients /\ lastPop = None
    /\ rout # None /\ pcPut = "done" /\ Len(rlist) >= 1

\* ---- C13: RedisOutputEndpoint(name, d) with a non-null name raises
\* ValueError("invalid direction") when d is neither "left" nor "right", before
\* the connection layer is set up and before any push; with "left", "right" or
\* no direction it yields an endpoint whose direction is d, left when omitted.
InvalidDirectionRejected ==
    /\ [](rout # None => rout.direction \in {"left", "right"})
    /\ []((ctorExc # None /\ ctorExc.msg = "invalid direction") =>
            /\ ctorExc.exc = "ValueError" /\ ctorExc.cls = "RedisOutputEndpoint"
            /\ rout = None /\ "rout" \notin clients
            /\ pcPut = "idle" /\ lastPush = None /\ putPushes = 0)
    /\ [][\A d \in DirectionArgs : NewRedisOutput(QueueName, d) =>
            IF d \in {Omitted, "left", "right"}
              THEN /\ ctorExc' = None
                   /\ rout' = RedisOutputEndpoint(QueueName,
                                                  IF d = Omitted THEN "left" ELSE d)
                   /\ "rout" \in clients'
              ELSE /\ ctorExc' = Raise("RedisOutputEndpoint", "ValueError",
                                       "invalid direction")
                   /\ rout' = None /\ clients' = clients
                   /\ UNCHANGED <<brokerVars, putVars, getVars, memVars>>]_vars
    /\ [][\A d \in {Omitted, "left", "right"} :
            (rout = None /\ qin = None /\ qout = None) =>
                ENABLED NewRedisOutput(QueueName, d)]_vars

\* the output endpoint's construction failed on direction "up" while the
\* consumer was already polling the list
InvalidDirectionWitness ==
    /\ ctorExc # None /\ ctorExc.msg = "invalid direction"
    /\ rout = None /\ "rout" \notin clients
    /\ rin # None /\ getPops >= 1

\* ---- C14 as stated: every QueueOutputEndpoint.put call enqueues and returns
\* true in the step it is made, whatever queue the endpoint was given.
PutNeverBlocks ==
    [][mputCount' = mputCount + 1 =>
          /\ pcMPut' = "done" /\ mputResult' = Ret(TRUE)
          /\ Len(mq') = Len(mq) + 1]_vars

\* C14 amended: the constructor accepts bounded queues too.  On an unbounded
\* queue (maxsize 0), or a bounded one with room, put enqueues the payload and
\* returns true at once; on a full bounded queue it is suspended, enqueues
\* nothing while the queue stays full, and once a get has made room it
\* enqueues its payload and returns true.
PutBlocksOnlyWhenFull ==
    /\ [](qout # None => qout.queue = Queue(maxsize))
    /\ [](pcMPut = "blocked" => maxsize > 0 /\ mputResult = None)
    /\ [][mputCount' = mputCount + 1 =>
            IF maxsize = 0 \/ Len(mq) < maxsize
              THEN /\ pcMPut' = "done" /\ mputResult' = Ret(TRUE)
                   /\ mq' = Append(mq, [id |-> mputCount',
                                        data |-> mputPayload'[mputCount']])
              ELSE /\ pcMPut' = "blocked" /\ mq' = mq]_vars
    /\ [][(pcMPut = "blocked" /\ Len(mq) >= maxsize) => pcMPut' = "blocked"]_vars
    /\ [][(pcMPut = "blocked" /\ pcMPut' # "blocked") =>
            /\ pcMPut' = "done" /\ mputResult' = Ret(TRUE)
            /\ mq' = Append(mq, [id |-> mputCount,
                                 data |-> mputPayload[mputCount]])]_vars

\* a put suspended on a full queue of capacity one, after an earlier item was
\* delivered
PutBlocksOnlyWhenFullWitness ==
    /\ qout # None /\ qout.queue = Queue(1)
    /\ pcMPut = "blocked" /\ Len(mq) = 1
    /\ Len(mgot) >= 1 /\ Len(mputDone) = 2

\* ---- C15: an endpoint keeps the queue name or handle it was constructed
\* with: every pop attempt, first or retry, is brpop on the input endpoint's
\* name with time_out 20, every push attempt goes to the output endpoint's
\* name, and once an endpoint exists no step (call, answer, fault, reset or
\* another constructor) changes its name or handle.
BoundQueueIdentity ==
    /\ []((rin # None /\ lastPop # None) =>
            lastPop = [op |-> "brpop", key |-> rin.queue_name, time_out |-> 20])
    /\ []((rout # None /\ lastPush # None) => lastPush.key = rout.queue_name)
    /\ [][getPops' = getPops + 1 =>
            /\ lastPop'.key = rin.queue_name /\ lastPop'.time_out = 20]_vars
    /\ [][putPushes' = putPushes + 1 => lastPush'.key = rout.queue_name]_vars
    /\ [][\A n \in QueueNameArgs \ {None} :
            /\ NewRedisInput(n) => rin'.queue_name = n
            /\ \A d \in {"left", "right"} :
                  NewRedisOutput(n, d) => rout'.queue_name = n]_vars
    /\ [][\A q \in {Queue(m) : m \in QueueSizes} :
            /\ NewQueueInput(q) => qin'.queue = q
            /\ NewQueueOutput(q) => qout'.queue = q]_vars
    /\ [][/\ rin # None => rin' = rin
          /\ rout # None => rout' = rout
          /\ qin # None => qin' = qin
          /\ qout # None => qout' = qout]_vars

\* a get that popped three times (an idle answer, a fault with its reset, then
\* data) and a put that pushed twice, all on the name given at construction
BoundQueueIdentityWitness ==
    /\ rin # None /\ rout # None
    /\ pcGet = "done" /\ getIdles >= 1 /\ getResets >= 1 /\ getPops >= 3
    /\ lastPop.key = rin.queue_name
    /\ putResets >= 1 /\ putPushes >= 2 /\ lastPush.key = rout.queue_name

\* ---- C16: a QueueInputEndpoint.get ends either by returning a Task or by
\* the cancellation of its task.  A get cancelled while suspended ends with
\* the cancellation raised to the caller: it returns no Task, takes no item
\* and leaves the queue as it was; every item put is therefore still in the
\* queue or was returned by a get, also after cancellations.
CancelPropagates ==
    /\ [](\A g \in Getters :
            /\ pcMGet[g] \in {"idle", "suspended", "done", "cancelled"}
            /\ pcMGet[g] = "cancelled" => mgetResult[g] = None
            /\ pcMGet[g] = "done" => /\ mgetResult[g] # None
                                     /\ get_data(mgetResult[g]) \in Payloads)
    /\ [](Len(mgot) + Len(mq) = Len(mputDone))
    /\ [][Len(mcancelled') > Len(mcancelled) =>
            LET g == Last(mcancelled').getter
            IN  /\ pcMGet[g] = "suspended" /\ pcMGet'[g] = "cancelled"
                /\ mgetResult'[g] = None
                /\ mq' = mq /\ mgot' = mgot
                /\ \A h \in Getters \ {g} : pcMGet'[h] = pcMGet[h]]_vars
    /\ [][\A g \in Getters :
            (pcMGet'[g] = "cancelled" /\ pcMGet[g] # "cancelled") =>
                Len(mcancelled') = Len(mcancelled) + 1]_vars

\* a getter whose get was cancelled on the empty queue later called get again
\* and was handed an item that was put after the cancellation
CancelPropagatesWitness ==
    /\ mcancelled # <<>>
    /\ LET g == mcancelled[1].getter
       IN  /\ pcMGet[g] = "done"
           /\ \E k \in DOMAIN mgot : /\ mgot[k].getter = g
                                     /\ mgot[k].id > mcancelled[1].puts
                                     /\ mgetResult[g] = Task(mgot[k].data)

\* ---- C17: the reset of the handler leaves the connection closed whether it
\* was open or already closed (a second reset in a row changes nothing), it is
\* the only thing the handler does to the connection or the list, and the
\* connection is opened again by the next pop or push itself: the connection
\* changes only in a reset step (to closed) or in an attempt that got an answer
\* (to open).
ResetIdempotentLazyReconnect ==
    /\ [][getResets' = getResets + 1 =>
            /\ pcGet = "except" /\ getConn' = "none"
            /\ getConn = "none" => getConn' = getConn
            /\ UNCHANGED <<rlist, lastPop, getPops, getResult, got>>]_vars
    /\ [][putResets' = putResets + 1 =>
            /\ pcPut = "except" /\ putConn' = "none"
            /\ putConn = "none" => putConn' = putConn
            /\ UNCHANGED <<rlist, lastPush, putPushes, putResult, putReturned>>]_vars
    /\ [][getConn' # getConn =>
            \/ getResets' = getResets + 1 /\ getConn' = "none"
            \/ getPops' = getPops + 1 /\ getConn' = "live"]_vars
    /\ [][putConn' # putConn =>
            \/ putResets' = putResets + 1 /\ putConn' = "none"
            \/ putPushes' = putPushes + 1 /\ putConn' = "live"]_vars
    /\ [][(getPops' = getPops + 1 /\ getExc' = NoExc) => getConn' = "live"]_vars
    /\ [][putAcks' = putAcks + 1 => putConn' = "live"]_vars
    /\ [](pcGet = "done" => getConn = "live")
    /\ [](pcPut = "done" => putConn = "live")

\* two attempts of one get faulted in a row, each followed by a reset (the
\* second on the already closed connection), and the third pop, issued with
\* the connection closed, returned data over a connection it opened itself
ResetIdempotentWitness ==
    /\ pcGet = "done" /\ getResets = 2 /\ getIdles = 0 /\ getPops = 3
    /\ getConn = "live"
    /\ pcPut = "done" /\ putConn = "live"

\* ---- C18: a broker call ends with its first successful backend operation.
\* The pop that returns data is the last pop of its get call: it is the step
\* that ends the call, removes one element and reports that element, and no
\* pop is issued until get is called again.  The acknowledged push is the last
\* push of its put call: a call that returned has exactly one acknowledged
\* push, and every other push of the call faulted.
StopAtFirstSuccess ==
    /\ [](pcGet = "done" =>
            /\ getPops = getFaults + getIdles + 1
            /\ got # <<>> /\ Last(got).id = lastPopped.id
            /\ getResult = Task(lastPopped.data))
    /\ [](pcPut = "done" => putAcks = 1 /\ putPushes = putFaults + 1)
    /\ [](putAcks <= 1)
    /\ [][Len(got') = Len(got) + 1 =>
            /\ pcGet = "attempt" /\ pcGet' = "done"
            /\ getPops' = getPops + 1
            /\ Len(rlist') = Len(rlist) - 1]_vars
    /\ [][getPops' = getPops + 1 => pcGet = "attempt"]_vars
    /\ [][pcGet = "done" =>
            \/ UNCHANGED <<getPops, lastPop, got, getResult>>
            \/ pcGet' = "attempt" /\ getPops' = 0 /\ got' = got]_vars
    /\ [][putPushes' = putPushes + 1 => pcPut = "attempt" /\ putAcks = 0]_vars
    /\ [][putAcks' = putAcks + 1 => pcPut' = "done" /\ putResult' = Ret(TRUE)]_vars
    /\ [][pcPut = "done" =>
            \/ UNCHANGED <<putPushes, putAcks, lastPush, putResult>>
            \/ pcPut' = "attempt" /\ putPushes' = 0 /\ putAcks' = 0]_vars

\* a get returned at its third pop (after an idle answer and a fault) with an
\* element still in the list, and a put returned at its second push
StopAtFirstSuccessWitness ==
    /\ pcGet = "done" /\ getPops = 3 /\ getIdles = 1 /\ getFaults = 1
    /\ rlist # <<>>
    /\ pcPut = "done" /\ putPushes = 2 /\ putAcks = 1

\* ---- C19: with direction "left" and a backend that never faulted (no
\* connection or timeout fault raised, every put made so far returned true or
\* is still in progress), the two broker endpoints form a FIFO queue: the k-th
\* get returned the payload of the k-th put, the list holds the puts not yet
\* returned with the newest at the head, and every get takes the tail of the
\* list, for either direction.
FaultFree ==
    /\ faultsLeft = MaxFaults
    /\ putReturned = 1..(putCount - (IF pcPut = "attempt" THEN 1 ELSE 0))
FaultFreeFifo ==
    /\ []((rout # None /\ rout.direction = "left" /\ FaultFree) =>
            /\ \A k \in DOMAIN got : got[k].id = k /\ got[k].data = putPayload[k]
            /\ \A k \in DOMAIN rlist :
                  /\ rlist[k].id = Cardinality(putReturned) - k + 1
                  /\ rlist[k].data = putPayload[rlist[k].id]
            /\ Len(got) + Len(rlist) = Cardinality(putReturned))
    /\ [][Len(got') = Len(got) + 1 =>
            /\ Last(got').id = Last(rlist).id
            /\ Last(got').data = Last(rlist).data
            /\ rlist' = Front(rlist)]_vars
    /\ [][(rout # None /\ rout.direction = "left" /\ Len(rlist') = Len(rlist) + 1) =>
            /\ Tail(rlist') = rlist /\ Head(rlist').id = putCount]_vars

\* two puts with different payloads both returned, and the two gets returned
\* them in the order of the puts
FaultFreeFifoWitness ==
    /\ rout # None /\ rout.direction = "left" /\ FaultFree
    /\ putCount = 2 /\ putPayload[1] # putPayload[2]
    /\ Len(got) = 2 /\ got[1].data = putPayload[1] /\ got[2].data = putPayload[2]
    /\ getIdles = 0 /\ pcGet = "done"

\* ---- C20: with several gets suspended on one memory queue every enqueued
\* item goes to exactly one of them: the delivered items are pairwise
\* distinct puts, the completed puts are exactly the items delivered plus the
\* items still queued, the step that hands out an item removes it from the
\* queue and completes one get only, and completed gets never outnumber
\* completed puts.
ExactlyOneGetter ==
    /\ [](\A i, j \in DOMAIN mgot : i # j => mgot[i].id # mgot[j].id)
    /\ []({mgot[i].id : i \in DOMAIN mgot} \cup {mq[i].id : i \in DOMAIN mq}
            = {mputDone[i] : i \in DOMAIN mputDone})
    /\ []({mgot[i].id : i \in DOMAIN mgot} \cap {mq[i].id : i \in DOMAIN mq} = {})
    /\ [](Len(mgot) <= Len(mputDone))
    /\ [][Len(mgot') = Len(mgot) + 1 =>
            /\ mq # <<>> /\ Len(mq') = Len(mq) - 1
            /\ Last(mgot').id = Head(mq).id
            /\ \E g \in Getters :
                  /\ Last(mgot').getter = g
                  /\ pcMGet[g] # "done" \/ ~mgetSuspended'[g]
                  /\ pcMGet'[g] = "done"
                  /\ \A h \in Getters \ {g} :
                        pcMGet'[h] = pcMGet[h] /\ mgetResult'[h] = mgetResult[h]]_vars
    /\ [][Len(mgot') \in {Len(mgot), Len(mgot) + 1}]_vars

\* both gets are suspended at once while a put has just enqueued an item
\* that either of them may be handed; an earlier item was already delivered
ExactlyOneGetterWitness ==
    /\ \A g \in Getters : pcMGet[g] = "suspended"
    /\ Len(mq) = 1 /\ Len(mgot) >= 1
    /\ Len(mputDone) = Len(mgot) + 1
====
